---- MODULE Spec2Model ----
(***************************************************************************)
(* LyricsMPRIS: the synchronisation engine.                                *)
(*                                                                         *)
(*   SpecIndex  - pool.getIndex, the incremental line lookup, applied to   *)
(*                bounded ascending LyricSets.                             *)
(*   SpecListen - pool.Listen and pool.listenPlayer, the polling loop.     *)
(*   SpecResolve - lyrics.FetchLyrics with parseSyncedLyrics, the lookup.  *)
(*   Spec       - the session controllers of package main: the D-Bus       *)
(*                signal loop with fetchAndDisplay, and the two mutex      *)
(*                protected handleTrack/handleSeek pairs, with the session *)
(*                goroutines they start and the ui tracker loops.          *)
(*                                                                         *)
(* Times and positions are float64 seconds in the program; only their      *)
(* order and sums matter here, so they are modelled as naturals.           *)
(***************************************************************************)
EXTENDS Integers, Sequences, FiniteSets, TLC

\* ------------------------------------------------------------------ bounds
MaxLen == 3        \* longest LyricSet drawn for getIndex
MaxTime == 3       \* largest line time drawn for getIndex

\* ------------------------------------------------------------- LyricSets
\* lyrics.LyricLine{Time, Text}
LyricLine(t, w) == [Time |-> t, Text |-> w]

\* Go slices are 0-based: lns[i].Time of the program is TimeAt(lns, i).
TimeAt(lns, i) == lns[i + 1].Time

\* Ascending by time (duplicates allowed), the order the spec gives a LyricSet.
IsAscending(lns) == \A i \in 1..(Len(lns) - 1) : lns[i].Time <= lns[i + 1].Time

SeqsUpTo(S, n) == UNION {[1..k -> S] : k \in 0..n}

AscendingLyricSets ==
    {lns \in SeqsUpTo({LyricLine(t, "w") : t \in 0..MaxTime}, MaxLen) : IsAscending(lns)}

\* ---------------------------------------------------------- pool.getIndex
\* A forward loop that never advances: it answers curIndex.
getIndexForwardStays(position, i, lns) == i - 1

RECURSIVE getIndexForward(_, _, _)
\* pool.go 125-130: for i := curIndex + 1; i < len(lines); i++
getIndexForward(position, i, lns) ==
    IF i < Len(lns)
    THEN IF position < TimeAt(lns, i) THEN i - 1
         ELSE getIndexForward(position, i + 1, lns)
    ELSE Len(lns) - 1

RECURSIVE getIndexBackward(_, _, _)
\* pool.go 132-137: for i := curIndex; i > 0; i--
getIndexBackward(position, i, lns) ==
    IF i > 0
    THEN IF position > TimeAt(lns, i) THEN i
         ELSE getIndexBackward(position, i - 1, lns)
    ELSE 0

\* A lookup that answers one past the last line.
getIndexPastEnd(position, curIndex, lns) == Len(lns)

\* pool.go 120-138
getIndex(position, curIndex, lns) ==
    IF Len(lns) <= 1 THEN 0
    ELSE IF position >= TimeAt(lns, curIndex)
         THEN getIndexForward(position, curIndex + 1, lns)
         ELSE getIndexBackward(position, curIndex, lns)

VARIABLES
    ixLines,     \* getIndex: the lines argument
    ixCur,       \* getIndex: the index the previous call returned (curIndex)
    ixPos,       \* getIndex: the position of the last call
    ixRes,       \* getIndex: the result of the last call
    ixCalls,     \* getIndex: calls made on ixLines, capped
    ixMono       \* getIndex: no call so far was given a smaller position than the one before

idxVars == <<ixLines, ixCur, ixPos, ixRes, ixCalls, ixMono>>

MaxCalls == 3      \* getIndex calls chained on one LyricSet

IndexInit ==
    /\ ixLines \in AscendingLyricSets
    /\ ixCur = 0
    /\ ixPos = 0
    /\ ixRes = 0
    /\ ixCalls = 0
    /\ ixMono = TRUE

\* One call newIndex := getIndex(position, index, lines); index = newIndex
\* (pool.go 80-84), the position drawn freely: forward steps and backward jumps.
GetIndexCall(p) ==
    /\ ixCalls < MaxCalls
    /\ ixPos' = p
    /\ ixRes' = getIndex(p, ixCur, ixLines)
    /\ ixCur' = ixRes'
    /\ ixCalls' = ixCalls + 1
    /\ ixMono' = (ixMono /\ p >= ixPos)
    /\ UNCHANGED ixLines

\* getIndex is not running: the other specifications hold these still.
IndexOff ==
    /\ ixLines = <<>>
    /\ ixCur = 0
    /\ ixPos = 0
    /\ ixRes = 0
    /\ ixCalls = 0
    /\ ixMono = TRUE

\* ------------------------------------------------------------ pool.Listen
MaxTracks == 2     \* distinct track identities the player reports
MaxPos == 3        \* largest playback position sampled or extrapolated
MaxNow == 2        \* wall-clock instants after start

Tracks == 1..MaxTracks

\* Strings are only compared; a title, artist or album is a natural, 0 the
\* empty string. mpris.TrackMetadata{Title, Artist, Album}
TrackMetadata(t) == [Title |-> t, Artist |-> 1, Album |-> 1]

\* GetMetadata's nil *TrackMetadata, returned with every error (mpris.go 164-202).
NilMetadata == [Title |-> 0, Artist |-> 0, Album |-> 0]

\* The LyricSet lrclib holds for a title: t + 1 lines at 1, 2, ..., each
\* carrying the title as its text.
LyricsOf(t) == [i \in 1..(t + 1) |-> LyricLine(i, t)]

\* The zero value of pool.playerState (pool.go 19-26)
ZeroState ==
    [Title |-> 0, Artist |-> 0, Album |-> 0, Playing |-> FALSE, Position |-> 0, Err |-> "nil"]

\* pool.go 104-113: the playerState listenPlayer builds from GetMetadata's
\* (meta, err) and GetPositionAndStatus's (pos, status, err2).
playerState(meta, err, pos, status, err2) ==
    IF err = "nil" /\ meta # NilMetadata /\ err2 = "nil"
    THEN [Title |-> meta.Title, Artist |-> meta.Artist, Album |-> meta.Album,
          Playing |-> (status = "Playing"), Position |-> pos, Err |-> err]
    ELSE [ZeroState EXCEPT !.Err = err]

\* What the player can answer one sample of listenPlayer.
PlayerSamples ==
    {playerState(NilMetadata, "player", 0, "", "nil"),
     playerState(TrackMetadata(1), "nil", 0, "", "position")}
    \cup {playerState(TrackMetadata(t), "nil", p, s, "nil") :
            t \in Tracks, p \in 0..MaxPos, s \in {"Playing", "Paused"}}

\* pool.Update (pool.go 12-17)
Update(lns, idx, playing, err) ==
    [Lines |-> lns, Index |-> idx, Playing |-> playing, Err |-> err]

NoUpdate == Update(<<>>, 0, FALSE, "none")

\* lyrics.FetchLyrics as Listen sees it: (lyric, err).
FetchOutcomes == {"found", "notfound", "error"}

VARIABLES
    ctxDone,      \* Listen: ctx is cancelled
    now,          \* the wall clock time.Now() reads
    lpPc,         \* listenPlayer: "check" | "poll" | "send" | "sleep" | "done"
    lpSt,         \* listenPlayer: the playerState st it is sending
    lPc,          \* Listen: "select" | "fetch" | "send" | "done"
    state,        \* Listen: state
    index,        \* Listen: index
    lines,        \* Listen: lines
    lastUpdate,   \* Listen: lastUpdate
    newState,     \* Listen: newState of the iteration inside FetchLyrics
    fetched,      \* Listen: how the FetchLyrics call of this iteration ended
    upd,          \* Listen: the Update of the pending ch <- Update
    lastCase      \* Listen: the select case of the last finished iteration

poolVars == <<ctxDone, now, lpPc, lpSt, lPc, state, index, lines, lastUpdate,
              newState, fetched, upd, lastCase>>

ListenInit ==
    /\ ctxDone = FALSE
    /\ now = 0
    /\ lpPc = "check"
    /\ lpSt = ZeroState
    /\ lPc = "select"
    /\ state = ZeroState
    /\ index = 0
    /\ lines = <<>>
    /\ lastUpdate = 0
    /\ newState = ZeroState
    /\ fetched = "none"
    /\ upd = NoUpdate
    /\ lastCase = "none"

\* The lines Listen keeps after FetchLyrics returned (pool.go 55-61).
linesAfterFetch(outcome, title, old) ==
    CASE outcome = "error" -> <<>>
      [] outcome = "found" -> LyricsOf(title)
      [] OTHER -> old

\* state.Err after FetchLyrics returned (pool.go 55-61).
errAfterFetch(outcome, old) ==
    CASE outcome = "error" -> "fetch"
      [] outcome = "found" -> "nil"
      [] OTHER -> old

\* state after the case newState := <-stateCh (pool.go 70); st1 is state as
\* lines 55-61 left it.
stateAfterSample(st1, ns) == ns

\* pool.go 80-93: recompute the index, emit the Update when something changed.
ListenEmit(changed, st, idx, lns) ==
    LET newIndex == getIndex(st.Position, idx, lns)
        changed1 == changed \/ newIndex # idx
    IN /\ state' = st
       /\ lines' = lns
       /\ index' = newIndex
       /\ IF changed1
          THEN /\ upd' = Update(lns, newIndex, st.Playing, st.Err)
               /\ lPc' = "send"
          ELSE /\ upd' = NoUpdate
               /\ lPc' = "select"

\* pool.go 54: the duration argument of the FetchLyrics call Listen is inside.
listenFetchDuration == newState.Position

\* pool.go 49-70, case newState := <-stateCh, up to the FetchLyrics call: the
\* rendezvous with listenPlayer's ch <- st (pool.go 114).
ListenRecvState ==
    /\ lPc = "select"
    /\ lpPc = "send"
    /\ lpPc' = "sleep"
    /\ lastUpdate' = now
    /\ LET ns == lpSt
           identityChanged ==
               ns.Title # state.Title \/ ns.Artist # state.Artist \/ ns.Album # state.Album
       IN IF identityChanged /\ ns.Title # 0 /\ ns.Artist # 0
          THEN /\ lPc' = "fetch"
               /\ newState' = ns
               /\ fetched' = "none"
               /\ UNCHANGED <<state, index, lines, upd, lastCase>>
          ELSE /\ newState' = ZeroState
               /\ fetched' = "none"
               /\ lastCase' = "sample"
               /\ ListenEmit(identityChanged \/ ns.Playing # state.Playing,
                             stateAfterSample(state, ns),
                             IF identityChanged THEN 0 ELSE index,
                             IF identityChanged THEN <<>> ELSE lines)
    /\ UNCHANGED <<ctxDone, now, lpSt>>

\* pool.go 54-70 and 80-93: FetchLyrics returns and the iteration finishes.
ListenFetchReturn(outcome) ==
    /\ lPc = "fetch"
    /\ fetched' = outcome
    /\ newState' = ZeroState
    /\ lastCase' = "sample"
    /\ ListenEmit(TRUE,
                  stateAfterSample([state EXCEPT !.Err = errAfterFetch(outcome, state.Err)],
                                   newState),
                  0,
                  linesAfterFetch(outcome, newState.Title, lines))
    /\ UNCHANGED <<ctxDone, now, lpPc, lpSt, lastUpdate>>

\* pool.go 71-78 and 80-93, case <-ticker.C
ListenTick ==
    /\ lPc = "select"
    /\ fetched' = "none"
    /\ lastCase' = "tick"
    /\ IF ~state.Playing \/ Len(lines) = 0
       THEN /\ ListenEmit(FALSE, state, index, lines)
            /\ UNCHANGED lastUpdate
       ELSE /\ state.Position + (now - lastUpdate) <= MaxPos
            /\ ListenEmit(FALSE,
                          [state EXCEPT !.Position = state.Position + (now - lastUpdate)],
                          index, lines)
            /\ lastUpdate' = now
    /\ UNCHANGED <<ctxDone, now, lpPc, lpSt, newState>>

\* pool.go 47-48, case <-ctx.Done()
ListenCtxDone ==
    /\ lPc = "select"
    /\ ctxDone
    /\ lPc' = "done"
    /\ UNCHANGED <<ctxDone, now, lpPc, lpSt, state, index, lines, lastUpdate,
                   newState, fetched, upd, lastCase>>

\* pool.go 87-92: the consumer receives the pending Update from ch.
ListenSend ==
    /\ lPc = "send"
    /\ lPc' = "select"
    /\ upd' = NoUpdate
    /\ fetched' = "none"
    /\ UNCHANGED <<ctxDone, now, lpPc, lpSt, state, index, lines, lastUpdate, newState,
                   lastCase>>

\* pool.go 98-103: listenPlayer's select { case <-ctx.Done(): return; default: }
ListenPlayerCheck ==
    /\ lpPc = "check"
    /\ lpPc' = IF ctxDone THEN "done" ELSE "poll"
    /\ UNCHANGED <<ctxDone, now, lpSt, lPc, state, index, lines, lastUpdate, newState,
                   fetched, upd, lastCase>>

\* pool.go 104-113: GetMetadata and GetPositionAndStatus have answered; st is
\* the playerState built from them.
ListenPlayerSample(st) ==
    /\ lpPc = "poll"
    /\ lpPc' = "send"
    /\ lpSt' = st
    /\ UNCHANGED <<ctxDone, now, lPc, state, index, lines, lastUpdate, newState,
                   fetched, upd, lastCase>>

\* pool.go 115: time.Sleep(interval)
ListenPlayerSleep ==
    /\ lpPc = "sleep"
    /\ lpPc' = "check"
    /\ UNCHANGED <<ctxDone, now, lpSt, lPc, state, index, lines, lastUpdate,
                   newState, fetched, upd, lastCase>>

\* The caller cancels the context passed to Listen.
CancelListen ==
    /\ ~ctxDone
    /\ ctxDone' = TRUE
    /\ UNCHANGED <<now, lpPc, lpSt, lPc, state, index, lines, lastUpdate,
                   newState, fetched, upd, lastCase>>

\* Wall-clock time passes.
ClockAdvance ==
    /\ now < MaxNow
    /\ now' = now + 1
    /\ UNCHANGED <<ctxDone, lpPc, lpSt, lPc, state, index, lines, lastUpdate,
                   newState, fetched, upd, lastCase>>

\* Listen is not running: the other specifications hold these still.
ListenOff ==
    /\ ctxDone = FALSE
    /\ now = 0
    /\ lpPc = "done"
    /\ lpSt = ZeroState
    /\ lPc = "done"
    /\ state = ZeroState
    /\ index = 0
    /\ lines = <<>>
    /\ lastUpdate = 0
    /\ newState = ZeroState
    /\ fetched = "none"
    /\ upd = NoUpdate
    /\ lastCase = "none"

\* ------------------------------------------------- the session controllers
MaxSessions == 3   \* session goroutines one run starts
MaxSeek == 1       \* largest position a Seek notification or handler call carries

\* The three controllers of package main:
\*   "fetchAndDisplay" - watchMPRISAndDisplayLyrics, main.go 18-107: one signal
\*                       loop, no mutex, the session goroutine calls FetchLyrics;
\*   "handleTrack"     - part_000 32-91: mu-protected handleTrack/handleSeek, the
\*                       session goroutine calls FetchLyrics;
\*   "displayLyrics"   - main.go 133-184: mu-protected handleTrack/handleSeek, the
\*                       session goroutine calls ui.DisplayLyricsContext.
Variants == {"fetchAndDisplay", "handleTrack", "displayLyrics"}

\* The -mode flag; DisplayLyricsContext (ui.go 61-67) also accepts "bubbletea".
Modes(v) ==
    IF v = "displayLyrics" THEN {"pipe", "modern", "bubbletea"} ELSE {"pipe", "modern"}

Sessions == 1..MaxSessions

\* A *lyrics.Lyric is nil (0) or holds LyricsOf(title): it is named by the title.
NilLyric == 0

\* mpris:length of a track in seconds, the second result of GetMetadata
\* (mpris.go 196-199); larger than every position.
Duration(meta) == 10 + meta.Title

\* What GetPositionAndStatus answers one poll of a tracker loop.
PollSamples ==
    {[err |-> TRUE, pos |-> 0, status |-> ""]}
    \cup {[err |-> FALSE, pos |-> p, status |-> st] :
            p \in 0..MaxPos, st \in {"Playing", "Paused"}}

VARIABLES
    variant,      \* which controller this run is
    mode,         \* the display mode flag
    cpc,          \* the controller thread: "idle" | "check" | "cancel" | "wait" | "start";
                  \* "exited" once the process has ended
    hKind,        \* the handler running (or last run): "none" | "track" | "seek"
    hMeta,        \* its meta argument
    hPos,         \* its pos argument
    hLyric,       \* handleSeek: lyric := lastLyric
    lastTrack,    \* the identity last accepted (main.go 39; the observer's, elsewhere)
    lastLyric,    \* lastLyric
    lastLyricBy,  \* the session whose goroutine wrote lastLyric last (0: nobody)
    cancel,       \* cancel: 0 is nil, else the session whose ctx it cancels
    wg,           \* wg's counter
    mu,           \* mu: "free" | "controller"
    tasks,        \* the session goroutines, by session generation
    nextGen,      \* the generation the next session gets
    rendered      \* what was printed last: session, lyric, line (-1: no lyric
                  \* line, the ansiReset of ui.go 122 and 131)

ctlVars == <<variant, mode, cpc, hKind, hMeta, hPos, hLyric, lastTrack, lastLyric,
             lastLyricBy, cancel, wg, mu, tasks, nextGen, rendered>>

\* A session goroutine: where it is, the arguments it captured, its ctx, the
\* lyric it holds, the locals of PipeModeContext (lastLineIdx, printed) and
\* the cursor of the bubbletea model (cur, ui.go 224).
\* pc: "none" | "fetch" | "store" | "exit" | "enter" | "loop" | "poll" |
\*     "paused" | "pausedPoll" | "dead", and "killed" when the process ended
\*     under it
\* sig: the goroutine ModernModeContext started on sigCh (ui.go 118-124):
\*      "none" | "wait" | "signalled" | "printed"; it outlives the session
\* late: ctx was already cancelled when FetchLyrics returned.
\* out: the goroutine has written to the terminal.
NoTask ==
    [pc |-> "none", kind |-> "none", meta |-> NilMetadata, pos |-> 0,
     lyric |-> NilLyric, done |-> FALSE, late |-> FALSE, out |-> FALSE,
     lastLineIdx |-> -1, printed |-> {}, cur |-> 0, sig |-> "none"]

NothingRendered == [gen |-> 0, lyric |-> NilLyric, line |-> -1]

Live(g) == tasks[g].pc \notin {"none", "dead", "killed"}

LiveSessions == {g \in Sessions : Live(g)}

CtlInit ==
    /\ variant \in Variants
    /\ mode \in Modes(variant)
    /\ cpc = "idle"
    /\ hKind = "none"
    /\ hMeta = NilMetadata
    /\ hPos = 0
    /\ hLyric = NilLyric
    /\ lastTrack = NilMetadata
    /\ lastLyric = NilLyric
    /\ lastLyricBy = 0
    /\ cancel = 0
    /\ wg = 0
    /\ mu = "free"
    /\ tasks = [g \in Sessions |-> NoTask]
    /\ nextGen = 1
    /\ rendered = NothingRendered

\* The controllers are not running: the other specifications hold these still.
CtlOff ==
    /\ variant = "fetchAndDisplay"
    /\ mode = "pipe"
    /\ cpc = "idle"
    /\ hKind = "none"
    /\ hMeta = NilMetadata
    /\ hPos = 0
    /\ hLyric = NilLyric
    /\ lastTrack = NilMetadata
    /\ lastLyric = NilLyric
    /\ lastLyricBy = 0
    /\ cancel = 0
    /\ wg = 0
    /\ mu = "free"
    /\ tasks = [g \in Sessions |-> NoTask]
    /\ nextGen = 1
    /\ rendered = NothingRendered

\* main.go 91: the identity triple differs from lastTrack.
identityDiffers(meta, last) ==
    meta.Title # last.Title \/ meta.Artist # last.Artist \/ meta.Album # last.Album

\* main.go 67-72 and 88-95: the initial GetMetadata, or a PropertiesChanged
\* signal carrying Metadata, reports meta; a new identity is accepted and
\* fetchAndDisplay(*meta, pos) entered, pos being GetMetadata's second result.
SignalMetadata(t) ==
    /\ variant = "fetchAndDisplay"
    /\ cpc = "idle"
    /\ nextGen <= MaxSessions
    /\ identityDiffers(TrackMetadata(t), lastTrack)
    /\ lastTrack' = TrackMetadata(t)
    /\ hKind' = "track"
    /\ hMeta' = TrackMetadata(t)
    /\ hPos' = Duration(TrackMetadata(t))
    /\ cpc' = "cancel"
    /\ UNCHANGED <<variant, mode, hLyric, lastLyric, lastLyricBy, cancel, wg, mu,
                   tasks, nextGen, rendered>>

\* main.go 96-104: a PropertiesChanged signal carrying Position.
SignalPosition(sec) ==
    /\ variant = "fetchAndDisplay"
    /\ cpc = "idle"
    /\ nextGen <= MaxSessions
    /\ IF lastLyric # NilLyric
       THEN /\ hKind' = "seek"
            /\ hMeta' = lastTrack
            /\ hPos' = sec
            /\ cpc' = "cancel"
       ELSE UNCHANGED <<hKind, hMeta, hPos, cpc>>
    /\ UNCHANGED <<variant, mode, hLyric, lastTrack, lastLyric, lastLyricBy, cancel,
                   wg, mu, tasks, nextGen, rendered>>

\* mpris.WatchAndHandleEvents is not among the sources. The observer of the
\* specification, section 4.1: onTrackChanged fires only when the identity
\* triple differs from the previous one.
onTrackChanged(meta) == identityDiffers(meta, lastTrack)

\* Section 4.1: onSeek fires on a position jump while a track is already known.
onSeek == lastTrack # NilMetadata

\* The observer calls handleTrack(meta, pos); handleTrack takes mu
\* (part_000 37-38, main.go 138-139).
handleTrack(t, pos) ==
    /\ variant # "fetchAndDisplay"
    /\ cpc = "idle"
    /\ nextGen <= MaxSessions
    /\ onTrackChanged(TrackMetadata(t))
    /\ lastTrack' = TrackMetadata(t)
    /\ mu = "free"
    /\ mu' = "controller"
    /\ hKind' = "track"
    /\ hMeta' = TrackMetadata(t)
    /\ hPos' = pos
    /\ cpc' = "cancel"
    /\ UNCHANGED <<variant, mode, hLyric, lastLyric, lastLyricBy, cancel, wg,
                   tasks, nextGen, rendered>>

\* The observer calls handleSeek(meta, pos); handleSeek reads lastLyric under
\* mu (part_000 64-67, main.go 157-160).
handleSeek(pos) ==
    /\ variant # "fetchAndDisplay"
    /\ cpc = "idle"
    /\ nextGen <= MaxSessions
    /\ onSeek
    /\ mu = "free"
    /\ hLyric' = lastLyric
    /\ hKind' = "seek"
    /\ hMeta' = lastTrack
    /\ hPos' = pos
    /\ cpc' = "check"
    /\ UNCHANGED <<variant, mode, lastTrack, lastLyric, lastLyricBy, cancel, wg, mu,
                   tasks, nextGen, rendered>>

\* part_000 68-71, main.go 161-164: return when lyric is nil, else take mu again.
handleSeekCheck ==
    /\ cpc = "check"
    /\ IF hLyric = NilLyric
       THEN cpc' = "idle" /\ UNCHANGED mu
       ELSE mu = "free" /\ mu' = "controller" /\ cpc' = "cancel"
    /\ UNCHANGED <<variant, mode, hKind, hMeta, hPos, hLyric, lastTrack, lastLyric,
                   lastLyricBy, cancel, wg, tasks, nextGen, rendered>>

\* main.go 45-46, part_000 39-40 and 72-73, main.go 140-141 and 165-166:
\* if cancel != nil { cancel() ...
cancelSession ==
    /\ cpc = "cancel"
    /\ IF cancel # 0
       THEN /\ tasks' = [tasks EXCEPT ![cancel].done = TRUE]
            /\ cpc' = "wait"
       ELSE /\ cpc' = "start"
            /\ UNCHANGED tasks
    /\ UNCHANGED <<variant, mode, hKind, hMeta, hPos, hLyric, lastTrack, lastLyric,
                   lastLyricBy, cancel, wg, mu, nextGen, rendered>>

\* wg.Wait() returns at once, whatever the counter.
wgWaitReturnsAtOnce == TRUE

\* main.go 47, part_000 41 and 74, main.go 142 and 167: wg.Wait() can return.
wgWait == wg = 0

waitSession ==
    /\ cpc = "wait"
    /\ wgWait
    /\ cpc' = "start"
    /\ UNCHANGED <<variant, mode, hKind, hMeta, hPos, hLyric, lastTrack, lastLyric,
                   lastLyricBy, cancel, wg, mu, tasks, nextGen, rendered>>

\* Where the goroutine a Seek starts begins: fetchAndDisplay's calls FetchLyrics
\* (main.go 54); handleSeek's goes straight to the tracker (part_000 80-87,
\* main.go 173-180).
seekTaskEntry == IF variant = "fetchAndDisplay" THEN "fetch" ELSE "enter"

\* main.go 49-52, part_000 43-47 and 76-80, main.go 144-148 and 169-173:
\* ctx, c := context.WithCancel(...); cancel = c; wg.Add(1); mu.Unlock(); go func()
\* Only the goroutine of main.go 173-180 is handed the lyric handleSeek read;
\* the one of part_000 80-87 is handed ctx alone.
startSession ==
    /\ cpc = "start"
    /\ cancel' = nextGen
    /\ wg' = wg + 1
    /\ mu' = "free"
    /\ tasks' = [tasks EXCEPT ![nextGen] =
                    [NoTask EXCEPT
                        !.pc = IF hKind = "track" THEN "fetch" ELSE seekTaskEntry,
                        !.kind = hKind,
                        !.meta = hMeta,
                        !.pos = hPos,
                        !.lyric = IF hKind = "seek" /\ variant = "displayLyrics"
                                  THEN hLyric ELSE NilLyric]]
    /\ nextGen' = nextGen + 1
    /\ cpc' = "idle"
    /\ UNCHANGED <<variant, mode, hKind, hMeta, hPos, hLyric, lastTrack, lastLyric,
                   lastLyricBy, rendered>>

\* defer wg.Done() runs: the goroutine is over. The goroutine its
\* ModernModeContext left on sigCh stays.
Exited(t) == [NoTask EXCEPT !.pc = "dead", !.kind = t.kind, !.meta = t.meta,
                            !.lyric = t.lyric, !.done = t.done, !.late = t.late,
                            !.out = t.out, !.sig = t.sig]

\* The lyric FetchLyrics hands back: (lyric, nil), (nil, nil) or (nil, err).
fetchedLyric(outcome, meta) == IF outcome = "found" THEN meta.Title ELSE NilLyric

\* FetchLyrics returns in the session goroutine.
\*   main.go 54-63: nothing found, return; else lastLyric = lyric and the tracker;
\*   part_000 49-50: on to mu.Lock();
\*   ui.go 57-60, main.go 150-151: DisplayLyricsContext returns nil, on to
\*   mu.Lock(); ui.go 61-67: else the tracker.
FetchReturn(g, outcome) ==
    /\ tasks[g].pc = "fetch"
    /\ LET lyric == fetchedLyric(outcome, tasks[g].meta)
           t1 == [tasks[g] EXCEPT !.lyric = lyric, !.late = tasks[g].done]
       IN CASE variant = "fetchAndDisplay" ->
                 IF lyric = NilLyric
                 THEN /\ tasks' = [tasks EXCEPT ![g] = Exited(t1)]
                      /\ wg' = wg - 1
                      /\ UNCHANGED <<lastLyric, lastLyricBy>>
                 ELSE /\ tasks' = [tasks EXCEPT ![g] = [t1 EXCEPT !.pc = "enter"]]
                      /\ lastLyric' = lyric
                      /\ lastLyricBy' = g
                      /\ UNCHANGED wg
            [] variant = "handleTrack" ->
                 /\ tasks' = [tasks EXCEPT ![g] = [t1 EXCEPT !.pc = "store"]]
                 /\ UNCHANGED <<wg, lastLyric, lastLyricBy>>
            [] variant = "displayLyrics" ->
                 /\ tasks' = [tasks EXCEPT ![g] =
                                 [t1 EXCEPT !.pc = IF lyric = NilLyric THEN "store" ELSE "enter"]]
                 /\ UNCHANGED <<wg, lastLyric, lastLyricBy>>
    /\ UNCHANGED <<variant, mode, cpc, hKind, hMeta, hPos, hLyric, lastTrack, cancel,
                   mu, nextGen, rendered>>

\* mu.Lock(); lastLyric = lyric; mu.Unlock() in the session goroutine.
\*   part_000 50-55: then return when nothing was found, else the tracker;
\*   main.go 151-153: then the goroutine ends.
\* A goroutine that ends has its deferred wg.Done() still to run.
StoreLastLyric(g) ==
    /\ tasks[g].pc = "store"
    /\ mu = "free"
    /\ lastLyric' = tasks[g].lyric
    /\ lastLyricBy' = g
    /\ tasks' = [tasks EXCEPT ![g].pc =
                    IF variant = "handleTrack" /\ tasks[g].lyric # NilLyric
                    THEN "enter" ELSE "exit"]
    /\ UNCHANGED <<variant, mode, cpc, hKind, hMeta, hPos, hLyric, lastTrack, cancel,
                   wg, mu, nextGen, rendered>>

\* part_000 48, main.go 149: the deferred wg.Done() of a goroutine that
\* returned after mu.Unlock().
wgDone(g) ==
    /\ tasks[g].pc = "exit"
    /\ tasks' = [tasks EXCEPT ![g] = Exited(tasks[g])]
    /\ wg' = wg - 1
    /\ UNCHANGED <<variant, mode, cpc, hKind, hMeta, hPos, hLyric, lastTrack,
                   lastLyric, lastLyricBy, cancel, mu, nextGen, rendered>>

\* ui.PipeModeContext(ctx) and ui.TerminalLyricsContext(ctx), the trackers
\* part_000 56-60 and 82-86 call, are not among the sources. The tracker of
\* the specification, section 4.4, works against the current LyricSet: the
\* one the controller holds in lastLyric.
ctxOnlyTrackerLyric == lastLyric

\* The lyric the tracker of session g shows: the argument it was called with
\* (main.go 59-63 and 175-179, ui.go 61-67), or the one of a ctx-only tracker.
sessionLyric(g) ==
    IF variant = "handleTrack" THEN ctxOnlyTrackerLyric ELSE tasks[g].lyric

\* The tracker a session goroutine runs: main.go 59-63, part_000 56-60 and
\* 82-86, ui.go 61-67, main.go 175-179.
trackerOf(g) ==
    IF mode = "pipe" THEN "pipe"
    ELSE IF mode = "bubbletea" /\ tasks[g].kind = "track" THEN "bubbletea"
    ELSE "modern"

\* The tracker is entered. ui.go 72-73: PipeModeContext sets up lastLineIdx and
\* printed; ui.go 118-126: ModernModeContext registers sigCh for SIGINT and
\* SIGTERM and starts the goroutine that waits on it; ui.go 214-218:
\* BubbleTeaModeContext builds the program.
TrackerEnter(g) ==
    /\ tasks[g].pc = "enter"
    /\ tasks' = [tasks EXCEPT ![g].pc = "loop",
                              ![g].sig = IF trackerOf(g) = "modern" THEN "wait" ELSE "none"]
    /\ UNCHANGED <<variant, mode, cpc, hKind, hMeta, hPos, hLyric, lastTrack,
                   lastLyric, lastLyricBy, cancel, wg, mu, nextGen, rendered>>

\* The process ends: every goroutine ends with it, no deferred call runs.
Killed(t) == [t EXCEPT !.pc = IF t.pc \in {"none", "dead"} THEN t.pc ELSE "killed"]

osExit ==
    /\ cpc' = "exited"
    /\ tasks' = [g \in Sessions |-> Killed(tasks[g])]

\* The process gets SIGINT or SIGTERM. With no channel registered (package main
\* registers none) the signal ends the process; else signal.Notify (ui.go 119)
\* has it put on every registered sigCh.
sigNotify ==
    /\ cpc # "exited"
    /\ IF \A g \in Sessions : tasks[g].sig = "none"
       THEN osExit
       ELSE /\ tasks' = [g \in Sessions |->
                            IF tasks[g].sig = "wait"
                            THEN [tasks[g] EXCEPT !.sig = "signalled"] ELSE tasks[g]]
            /\ UNCHANGED cpc
    /\ UNCHANGED <<variant, mode, hKind, hMeta, hPos, hLyric, lastTrack, lastLyric,
                   lastLyricBy, cancel, wg, mu, nextGen, rendered>>

\* ui.go 121-122: <-sigCh; fmt.Print(ansiReset) in the goroutine session g left.
sigPrint(g) ==
    /\ cpc # "exited"
    /\ tasks[g].sig = "signalled"
    /\ tasks' = [tasks EXCEPT ![g].sig = "printed"]
    /\ rendered' = [gen |-> g, lyric |-> NilLyric, line |-> -1]
    /\ UNCHANGED <<variant, mode, cpc, hKind, hMeta, hPos, hLyric, lastTrack,
                   lastLyric, lastLyricBy, cancel, wg, mu, nextGen>>

\* ui.go 123: os.Exit(0) in the goroutine session g left.
sigExit(g) ==
    /\ cpc # "exited"
    /\ tasks[g].sig = "printed"
    /\ osExit
    /\ UNCHANGED <<variant, mode, hKind, hMeta, hPos, hLyric, lastTrack, lastLyric,
                   lastLyricBy, cancel, wg, mu, nextGen, rendered>>

\* A tracker that sees the cancellation and goes on all the same.
TrackerKeepsRunning(g, t) == UNCHANGED <<tasks, wg>>

\* The tracker of session g returns to the goroutine, whose record is t by
\* then: under displayLyrics the handleTrack goroutine goes on to mu.Lock()
\* (main.go 150-151), every other goroutine ends.
TrackerReturns(g, t) ==
    IF variant = "displayLyrics" /\ t.kind = "track"
    THEN /\ tasks' = [tasks EXCEPT ![g] = [t EXCEPT !.pc = "store"]]
         /\ UNCHANGED wg
    ELSE /\ tasks' = [tasks EXCEPT ![g] = Exited(t)]
         /\ wg' = wg - 1

\* ui.go 75-79 and 129-134: select { case <-ctx.Done(): return; default: }
\* ModernModeContext prints ansiReset before it returns (ui.go 131).
TrackerCheck(g) ==
    /\ tasks[g].pc = "loop"
    /\ trackerOf(g) # "bubbletea"
    /\ IF tasks[g].done
       THEN IF trackerOf(g) = "modern"
            THEN /\ TrackerReturns(g, [tasks[g] EXCEPT !.out = TRUE])
                 /\ rendered' = [gen |-> g, lyric |-> NilLyric, line |-> -1]
            ELSE /\ TrackerReturns(g, tasks[g])
                 /\ UNCHANGED rendered
       ELSE /\ tasks' = [tasks EXCEPT ![g].pc = "poll"]
            /\ UNCHANGED <<wg, rendered>>
    /\ UNCHANGED <<variant, mode, cpc, hKind, hMeta, hPos, hLyric, lastTrack,
                   lastLyric, lastLyricBy, cancel, mu, nextGen>>

RECURSIVE scanLines(_, _, _, _)
\* ui.go 101-107 and 173-179: for i, line := range lyric.Lines
\*     { if pos < line.Time { break }; lineIdx = i }
scanLines(pos, lns, i, acc) ==
    IF i < Len(lns)
    THEN IF pos < TimeAt(lns, i) THEN acc ELSE scanLines(pos, lns, i + 1, i)
    ELSE acc

\* ui.go 80-113 (PipeModeContext) and 153-209 (ModernModeContext): one poll of
\* the player and what it prints.
TrackerPoll(g, s) ==
    /\ tasks[g].pc = "poll"
    /\ IF s.err
       THEN /\ tasks' = [tasks EXCEPT ![g].pc = "loop"]
            /\ UNCHANGED rendered
       ELSE IF s.status # "Playing"
       THEN /\ tasks' = [tasks EXCEPT ![g].pc = "paused"]
            /\ UNCHANGED rendered
       ELSE IF trackerOf(g) = "pipe"
       THEN LET lineIdx == scanLines(s.pos, LyricsOf(sessionLyric(g)), 0, -1)
            IN IF lineIdx # -1 /\ lineIdx # tasks[g].lastLineIdx
                  /\ lineIdx \notin tasks[g].printed
               THEN /\ tasks' = [tasks EXCEPT ![g].pc = "loop",
                                              ![g].out = TRUE,
                                              ![g].lastLineIdx = lineIdx,
                                              ![g].printed = @ \cup {lineIdx}]
                    /\ rendered' = [gen |-> g, lyric |-> sessionLyric(g), line |-> lineIdx]
               ELSE /\ tasks' = [tasks EXCEPT ![g].pc = "loop"]
                    /\ UNCHANGED rendered
       ELSE LET cur == scanLines(s.pos, LyricsOf(sessionLyric(g)), 0, 0)
            IN /\ tasks' = [tasks EXCEPT ![g].pc = "loop", ![g].out = TRUE]
               /\ rendered' = [gen |-> g, lyric |-> sessionLyric(g), line |-> cur]
    /\ UNCHANGED <<variant, mode, cpc, hKind, hMeta, hPos, hLyric, lastTrack,
                   lastLyric, lastLyricBy, cancel, wg, mu, nextGen>>

\* ui.go 87-92 and 159-164: the inner loop while the player is not playing,
\* select { case <-ctx.Done(): return; default: }
TrackerPaused(g) ==
    /\ tasks[g].pc = "paused"
    /\ IF tasks[g].done
       THEN TrackerReturns(g, tasks[g])
       ELSE tasks' = [tasks EXCEPT ![g].pc = "pausedPoll"] /\ UNCHANGED wg
    /\ UNCHANGED <<variant, mode, cpc, hKind, hMeta, hPos, hLyric, lastTrack,
                   lastLyric, lastLyricBy, cancel, mu, nextGen, rendered>>

\* ui.go 93-98 and 165-170: after the sleep GetPositionAndStatus answers s and
\* the inner loop tests status again.
TrackerPausedPoll(g, s) ==
    /\ tasks[g].pc = "pausedPoll"
    /\ tasks' = [tasks EXCEPT ![g].pc =
                    IF ~s.err /\ s.status = "Playing" THEN "loop" ELSE "paused"]
    /\ UNCHANGED <<variant, mode, cpc, hKind, hMeta, hPos, hLyric, lastTrack,
                   lastLyric, lastLyricBy, cancel, wg, mu, nextGen, rendered>>

\* The messages the bubbletea program hands to Update (ui.go 236-254): a key
\* that quits, the up and down keys, and a window size.
TeaMsgs == {"quit", "up", "down", "resize"}

\* ui.go 244-251: m.cur after Update(msg) on a lyric of n lines.
teaCursor(cur, msg, n) ==
    CASE msg = "up" -> IF cur > 0 THEN cur - 1 ELSE cur
      [] msg = "down" -> IF cur < n - 1 THEN cur + 1 ELSE cur
      [] OTHER -> cur

\* ui.go 213-220, 236-254 and 257-281: the bubbletea program takes a message
\* and shows the window around m.cur; p.Start() returns when ctx is cancelled
\* or the user quits (ui.go 242-243).
TeaProgram(g, msg) ==
    /\ tasks[g].pc = "loop"
    /\ trackerOf(g) = "bubbletea"
    /\ IF tasks[g].done \/ msg = "quit"
       THEN TrackerReturns(g, tasks[g]) /\ UNCHANGED rendered
       ELSE LET cur == teaCursor(tasks[g].cur, msg, Len(LyricsOf(tasks[g].lyric)))
            IN /\ rendered' = [gen |-> g, lyric |-> tasks[g].lyric, line |-> cur]
               /\ tasks' = [tasks EXCEPT ![g].out = TRUE, ![g].cur = cur]
               /\ UNCHANGED wg
    /\ UNCHANGED <<variant, mode, cpc, hKind, hMeta, hPos, hLyric, lastTrack,
                   lastLyric, lastLyricBy, cancel, mu, nextGen>>

\* One step of session goroutine g that needs nothing but the scheduler and
\* an answer to a call it is waiting in.
ScheduledStep(g) ==
    \/ \E o \in FetchOutcomes : FetchReturn(g, o)
    \/ StoreLastLyric(g)
    \/ wgDone(g)
    \/ TrackerEnter(g)
    \/ TrackerCheck(g)
    \/ \E s \in PollSamples : TrackerPoll(g, s)
    \/ TrackerPaused(g)
    \/ \E s \in PollSamples : TrackerPausedPoll(g, s)

\* One step of session goroutine g.
TaskStep(g) ==
    \/ ScheduledStep(g)
    \/ \E msg \in TeaMsgs : TeaProgram(g, msg)

\* ------------------------------------------------------ lyrics.FetchLyrics
MaxPayloadLines == 2   \* lines of a synchronized payload drawn freely
MaxCandidates == 2     \* results of a search response

\* One line of a SyncedLyrics string, by what parseSyncedLyrics looks at:
\*   len0  - len(line) < 1
\*   open  - line[0] == '['
\*   close - the line holds a ']'
\*   stamp - line[1:endIdx] as the three fields "%02f:%02f.%02f" reads, a field
\*           that is no number being -1: "00:12.34" is <<0, 12, 34>>, "bad" is
\*           <<-1, -1, -1>>, "01:xx" is <<1, -1, -1>>
\*   words - strings.TrimSpace(line[endIdx+1:]), a natural, 0 the empty string
PayloadLine(open, close, stamp, words) ==
    [len0 |-> FALSE, open |-> open, close |-> close, stamp |-> stamp, words |-> words]

NoStamp == <<-1, -1, -1>>

EmptyLine == [len0 |-> TRUE, open |-> FALSE, close |-> FALSE, stamp |-> NoStamp, words |-> 0]

\* A SyncedLyrics string is the sequence of its lines, as strings.Split(synced,
\* "\n") gives them (lyrics.go 37); the empty string splits into one empty line.
EmptyString == <<EmptyLine>>

\* The lines payloads are drawn from: "", "words", "[00:05.00 words",
\* and "[stamp]text" for the stamps 00:05.00, 00:12.34, bad and 01:xx with the
\* texts "", "a".
PayloadLines ==
    {EmptyLine, PayloadLine(FALSE, FALSE, NoStamp, 1), PayloadLine(TRUE, FALSE, NoStamp, 1)}
    \cup {PayloadLine(TRUE, TRUE, st, w) :
            st \in {<<0, 5, 0>>, <<0, 12, 34>>, NoStamp, <<1, -1, -1>>}, w \in 0..1}

\* "[00:12.34]Hello\n[bad]\n[01:00.00]  \n[00:05.00]World"
ExamplePayload ==
    <<PayloadLine(TRUE, TRUE, <<0, 12, 34>>, 1), PayloadLine(TRUE, TRUE, NoStamp, 0),
      PayloadLine(TRUE, TRUE, <<1, 0, 0>>, 0), PayloadLine(TRUE, TRUE, <<0, 5, 0>>, 2)>>

Payloads ==
    UNION {[1..k -> PayloadLines] : k \in 1..MaxPayloadLines} \cup {ExamplePayload}

\* fmt.Sscanf(timestamp, "%02f:%02f.%02f", &min, &sec, &centi), its error
\* dropped (lyrics.go 53-54): scanning stops at the first field that is no
\* number, and the variables not reached keep their zero.
Sscanf(stamp) ==
    IF stamp[1] = -1 THEN <<0, 0, 0>>
    ELSE IF stamp[2] = -1 THEN <<stamp[1], 0, 0>>
    ELSE IF stamp[3] = -1 THEN <<stamp[1], stamp[2], 0>>
    ELSE stamp

\* lyrics.go 55: timeVal := min*60 + sec + centi/100, counted in centiseconds.
timeVal(f) == f[1] * 6000 + f[2] * 100 + f[3]

\* lyrics.go 38-56: what one line of the payload appends to lines.
parseLine(line) ==
    IF line.len0 THEN <<>>
    ELSE IF ~line.open THEN <<>>
    ELSE IF ~line.close THEN <<>>
    ELSE IF line.words = 0 THEN <<>>
    ELSE <<LyricLine(timeVal(Sscanf(line.stamp)), line.words)>>

RECURSIVE parseSyncedLyrics(_)
\* lyrics.go 35-59
parseSyncedLyrics(synced) ==
    IF synced = <<>> THEN <<>>
    ELSE parseLine(Head(synced)) \o parseSyncedLyrics(Tail(synced))

\* LrcLibAPIResponse, of which only SyncedLyrics is read (lyrics.go 15-24).
LrcLibAPIResponse(synced) == [SyncedLyrics |-> synced]

\* What client.Do and io.ReadAll hand back: a transport failure, or a status
\* with a body that cannot be read, is no JSON of the expected shape, or
\* decodes to value.
NoResponse == [err |-> FALSE, status |-> 0, body |-> "none", value |-> <<>>]

TransportFailure == [NoResponse EXCEPT !.err = TRUE]

HttpResponse(status, body, value) ==
    [err |-> FALSE, status |-> status, body |-> body, value |-> value]

\* The answers of the exact-match endpoint.
GetResponses ==
    {TransportFailure}
    \cup {HttpResponse(st, "none", <<>>) : st \in {404, 400, 500}}
    \cup {HttpResponse(200, b, <<>>) : b \in {"unreadable", "badjson"}}
    \cup {HttpResponse(200, "json", LrcLibAPIResponse(p)) : p \in Payloads \cup {EmptyString}}

\* The payloads search candidates carry: "", "words", "[00:05.00]a", "[00:12.34]a".
CandidatePayloads ==
    {EmptyString,
     <<PayloadLine(FALSE, FALSE, NoStamp, 1)>>,
     <<PayloadLine(TRUE, TRUE, <<0, 5, 0>>, 1)>>,
     <<PayloadLine(TRUE, TRUE, <<0, 12, 34>>, 1)>>}

\* The answers of the search endpoint.
SearchResponses ==
    {TransportFailure}
    \cup {HttpResponse(st, "none", <<>>) : st \in {404, 500}}
    \cup {HttpResponse(200, b, <<>>) : b \in {"unreadable", "badjson"}}
    \cup {HttpResponse(200, "json", rs) :
            rs \in SeqsUpTo({LrcLibAPIResponse(p) : p \in CandidatePayloads}, MaxCandidates)}

\* The (lyric, err) pairs FetchLyrics returns; a nil lyric is <<>>.
Found(lns) == [lyric |-> lns, err |-> FALSE]

NotFound == [lyric |-> <<>>, err |-> FALSE]

Failed == [lyric |-> <<>>, err |-> TRUE]

VARIABLES
    rPc,          \* FetchLyrics: "get" | "search" | "done" ("off": not running)
    rGet,         \* the response to the exact-match request
    rSearch,      \* the response to the search request
    rOut          \* what FetchLyrics returned

resVars == <<rPc, rGet, rSearch, rOut>>

ResolveInit ==
    /\ rPc = "get"
    /\ rGet = NoResponse
    /\ rSearch = NoResponse
    /\ rOut = NotFound

\* FetchLyrics is not running: the other specifications hold these still.
ResolveOff ==
    /\ rPc = "off"
    /\ rGet = NoResponse
    /\ rSearch = NoResponse
    /\ rOut = NotFound

\* lyrics.go 104-127: the body of a 200 answer of the exact-match endpoint.
lyricOfBody(resp) ==
    IF resp.body # "json" THEN Failed
    ELSE IF resp.value.SyncedLyrics = EmptyString THEN NotFound
    ELSE LET lns == parseSyncedLyrics(resp.value.SyncedLyrics)
         IN IF Len(lns) = 0 THEN NotFound ELSE Found(lns)

\* A lookup that also searches when a 200 answer holds no usable lyrics.
fallsBackWithoutLyrics(resp) ==
    \/ resp.status = 404 \/ resp.status = 400
    \/ resp.status = 200 /\ lyricOfBody(resp) = NotFound

\* lyrics.go 94: the statuses on which FetchLyrics falls back to the search.
fallsBackToSearch(resp) == resp.status = 404 \/ resp.status = 400

\* lyrics.go 87-127: the exact-match request returns resp.
FetchLyrics(resp) ==
    /\ rPc = "get"
    /\ rGet' = resp
    /\ IF resp.err
       THEN rPc' = "done" /\ rOut' = Failed
       ELSE IF fallsBackToSearch(resp)
       THEN rPc' = "search" /\ UNCHANGED rOut
       ELSE IF resp.status # 200
       THEN rPc' = "done" /\ rOut' = NotFound
       ELSE rPc' = "done" /\ rOut' = lyricOfBody(resp)
    /\ UNCHANGED rSearch

\* A candidate is taken as soon as its payload is not empty.
candidateHasPayload(apiResp) == apiResp.SyncedLyrics # EmptyString

\* lyrics.go 167-169: the candidate the loop returns on.
candidateUsable(apiResp) ==
    /\ apiResp.SyncedLyrics # EmptyString
    /\ Len(parseSyncedLyrics(apiResp.SyncedLyrics)) > 0

\* The loop over the candidates ending in an error.
searchExhaustedFails == Failed

\* lyrics.go 174: return nil, nil after the loop.
searchExhausted == NotFound

RECURSIVE searchResults(_)
\* lyrics.go 166-174: for _, apiResp := range results
searchResults(results) ==
    IF results = <<>> THEN searchExhausted
    ELSE IF candidateUsable(Head(results))
         THEN Found(parseSyncedLyrics(Head(results).SyncedLyrics))
         ELSE searchResults(Tail(results))

\* lyrics.go 142-175: the search request returns resp.
fetchLyricsBySearch(resp) ==
    /\ rPc = "search"
    /\ rSearch' = resp
    /\ rPc' = "done"
    /\ rOut' = IF resp.err THEN Failed
               ELSE IF resp.status # 200 THEN NotFound
               ELSE IF resp.body # "json" THEN Failed
               ELSE searchResults(resp.value)
    /\ UNCHANGED rGet

\* ---------------------------------------------------------- specifications
vars == <<idxVars, poolVars, ctlVars, resVars>>

IndexNext == \E p \in 0..(MaxTime + 1) : GetIndexCall(p) /\ UNCHANGED <<poolVars, ctlVars, resVars>>

InitIndex == IndexInit /\ ListenOff /\ CtlOff /\ ResolveOff

SpecIndex == InitIndex /\ [][IndexNext]_vars

ListenNext ==
    \/ ListenRecvState /\ UNCHANGED <<idxVars, ctlVars, resVars>>
    \/ \E o \in FetchOutcomes : ListenFetchReturn(o) /\ UNCHANGED <<idxVars, ctlVars, resVars>>
    \/ ListenTick /\ UNCHANGED <<idxVars, ctlVars, resVars>>
    \/ ListenCtxDone /\ UNCHANGED <<idxVars, ctlVars, resVars>>
    \/ ListenSend /\ UNCHANGED <<idxVars, ctlVars, resVars>>
    \/ ListenPlayerCheck /\ UNCHANGED <<idxVars, ctlVars, resVars>>
    \/ \E st \in PlayerSamples : ListenPlayerSample(st) /\ UNCHANGED <<idxVars, ctlVars, resVars>>
    \/ ListenPlayerSleep /\ UNCHANGED <<idxVars, ctlVars, resVars>>
    \/ CancelListen /\ UNCHANGED <<idxVars, ctlVars, resVars>>
    \/ ClockAdvance /\ UNCHANGED <<idxVars, ctlVars, resVars>>

InitListen == ListenInit /\ IndexOff /\ CtlOff /\ ResolveOff

SpecListen == InitListen /\ [][ListenNext]_vars

\* Listen and listenPlayer are scheduled whenever they can take a step, the
\* consumer of ch keeps receiving, and a select with a cancelled ctx among its
\* ready cases picks that case sooner or later.
ListenFairness ==
    LET Others == UNCHANGED <<idxVars, ctlVars, resVars>>
    IN /\ WF_vars(ListenRecvState /\ Others)
       /\ WF_vars((\E o \in FetchOutcomes : ListenFetchReturn(o)) /\ Others)
       /\ WF_vars(ListenSend /\ Others)
       /\ SF_vars(ListenCtxDone /\ Others)
       /\ WF_vars(ListenPlayerCheck /\ Others)
       /\ WF_vars((\E st \in PlayerSamples : ListenPlayerSample(st)) /\ Others)
       /\ WF_vars(ListenPlayerSleep /\ Others)

SpecListenLive == InitListen /\ [][ListenNext]_vars /\ ListenFairness

Init == CtlInit /\ IndexOff /\ ListenOff /\ ResolveOff

Next ==
    \/ \E t \in Tracks : SignalMetadata(t) /\ UNCHANGED <<idxVars, poolVars, resVars>>
    \/ \E sec \in 0..MaxSeek : SignalPosition(sec) /\ UNCHANGED <<idxVars, poolVars, resVars>>
    \/ \E t \in Tracks, pos \in 0..MaxSeek : handleTrack(t, pos) /\ UNCHANGED <<idxVars, poolVars, resVars>>
    \/ \E pos \in 0..MaxSeek : handleSeek(pos) /\ UNCHANGED <<idxVars, poolVars, resVars>>
    \/ handleSeekCheck /\ UNCHANGED <<idxVars, poolVars, resVars>>
    \/ cancelSession /\ UNCHANGED <<idxVars, poolVars, resVars>>
    \/ waitSession /\ UNCHANGED <<idxVars, poolVars, resVars>>
    \/ startSession /\ UNCHANGED <<idxVars, poolVars, resVars>>
    \/ \E g \in Sessions, o \in FetchOutcomes : FetchReturn(g, o) /\ UNCHANGED <<idxVars, poolVars, resVars>>
    \/ \E g \in Sessions : StoreLastLyric(g) /\ UNCHANGED <<idxVars, poolVars, resVars>>
    \/ \E g \in Sessions : wgDone(g) /\ UNCHANGED <<idxVars, poolVars, resVars>>
    \/ \E g \in Sessions : TrackerEnter(g) /\ UNCHANGED <<idxVars, poolVars, resVars>>
    \/ \E g \in Sessions : TrackerCheck(g) /\ UNCHANGED <<idxVars, poolVars, resVars>>
    \/ \E g \in Sessions, s \in PollSamples : TrackerPoll(g, s) /\ UNCHANGED <<idxVars, poolVars, resVars>>
    \/ \E g \in Sessions : TrackerPaused(g) /\ UNCHANGED <<idxVars, poolVars, resVars>>
    \/ \E g \in Sessions, s \in PollSamples : TrackerPausedPoll(g, s) /\ UNCHANGED <<idxVars, poolVars, resVars>>
    \/ \E g \in Sessions, msg \in TeaMsgs : TeaProgram(g, msg) /\ UNCHANGED <<idxVars, poolVars, resVars>>
    \/ sigNotify /\ UNCHANGED <<idxVars, poolVars, resVars>>
    \/ \E g \in Sessions : sigPrint(g) /\ UNCHANGED <<idxVars, poolVars, resVars>>
    \/ \E g \in Sessions : sigExit(g) /\ UNCHANGED <<idxVars, poolVars, resVars>>

Spec == Init /\ [][Next]_vars

\* The Go scheduler runs every goroutine that can take a step, and every
\* time.Sleep, every FetchLyrics and every call to the player returns. What
\* the player answers, what the user types and whether a signal arrives is
\* left open: a player paused for ever and a bubbletea program nobody quits
\* are behaviours too.
SessionFairness ==
    \A g \in Sessions :
        /\ WF_vars(ScheduledStep(g) /\ UNCHANGED <<idxVars, poolVars, resVars>>)
        /\ WF_vars((sigPrint(g) \/ sigExit(g)) /\ UNCHANGED <<idxVars, poolVars, resVars>>)

SpecLive == Init /\ [][Next]_vars /\ SessionFairness

ResolveNext ==
    \/ \E resp \in GetResponses : FetchLyrics(resp) /\ UNCHANGED <<idxVars, poolVars, ctlVars>>
    \/ \E resp \in SearchResponses :
          fetchLyricsBySearch(resp) /\ UNCHANGED <<idxVars, poolVars, ctlVars>>

InitResolve == ResolveInit /\ IndexOff /\ ListenOff /\ CtlOff

SpecResolve == InitResolve /\ [][ResolveNext]_vars

\* ------------------------------------------------------------------ claims
\* C2: at every instant at most one session goroutine is live, and a new one
\* is started only after the previous one was cancelled and has exited.
C2_AtMostOneLiveSession ==
    /\ Cardinality(LiveSessions) <= 1
    /\ cpc = "start" =>
          /\ LiveSessions = {}
          /\ cancel # 0 => tasks[cancel].done /\ tasks[cancel].pc = "dead"

\* A second session runs after the first was cancelled and has exited.
C2_Witness ==
    \E g \in Sessions :
        /\ g > 1
        /\ Live(g)
        /\ tasks[g - 1].pc = "dead"
        /\ tasks[g - 1].done

\* C3: in the mutex-protected controllers every cancel-then-join completes: the
\* controller, waiting in wg.Wait(), is never left with a session goroutine
\* that cannot take another step.
C3_CancelThenJoinCompletes ==
    (variant # "fetchAndDisplay" /\ cpc = "wait") =>
        (wgWait \/ \E g \in LiveSessions : ENABLED TaskStep(g))

\* C4: the result of a resolution whose session was cancelled before FetchLyrics
\* returned is neither stored into lastLyric nor rendered.
C4_LateResultDiscarded ==
    /\ lastLyricBy # 0 => ~tasks[lastLyricBy].late
    /\ (rendered.gen # 0 /\ rendered.line # -1) => ~tasks[rendered.gen].late

\* C5: accepting a TrackChanged never waits for the lookup of the superseded
\* track: the controller is never in wg.Wait() for a goroutine that is inside
\* FetchLyrics.
C5_AcceptanceNeverWaitsForLookup ==
    ~(hKind = "track" /\ cpc = "wait" /\ \E g \in Sessions : tasks[g].pc = "fetch")

TrackerPcs == {"enter", "loop", "poll", "paused", "pausedPoll"}

\* C8: a step of the Seek handler taken while the current session is
\* in its tracker loop cancels no token and joins, replaces or starts no task.
C8_SeekLeavesSessionAlone ==
    [][(hKind' = "seek" /\ cpc' # cpc /\ cancel # 0 /\ tasks[cancel].pc \in TrackerPcs)
          => (tasks' = tasks /\ cancel' = cancel)]_vars

\* C9: after TrackChanged(T) a Seek is indexed against T's LyricSet: the lyric
\* a Seek handler goes on with is the one resolved for the track last accepted.
C9_SeekUsesCurrentTrackLyrics ==
    (hKind = "seek" /\ cpc \in {"cancel", "wait", "start"}) =>
        IF variant = "fetchAndDisplay" THEN hMeta = lastTrack
        ELSE hLyric = lastTrack.Title

\* Idle: no track is known, or the current session ended with nothing found
\* (the seek goroutine of part_000 holds no lyric at all).
ControllerIdle ==
    \/ cancel = 0
    \/ /\ tasks[cancel].pc = "dead"
       /\ tasks[cancel].lyric = NilLyric
       /\ ~(variant = "handleTrack" /\ tasks[cancel].kind = "seek")

\* C10: a Seek received while the controller is Idle changes nothing: its
\* handler never goes on to cancel or start a session.
C10_SeekWhileIdleIgnored ==
    [][(ControllerIdle /\ cpc # "cancel" /\ hKind' = "seek") => cpc' # "cancel"]_vars

\* C11: output reaches the terminal in non-decreasing session-generation
\* order: the session that wrote last (rendered.gen) is never followed by an
\* older one, whatever the interleaving of track changes, seeks,
\* cancellation and tracker steps; what the goroutine a session left on
\* sigCh writes is output of that session.
C11_OutputInGenerationOrder == [][rendered'.gen >= rendered.gen]_vars

\* C12: in Listen, a sample identical to the previous one (same identity,
\* status and position, no tick in between) never produces a second Update:
\* the iteration that receives it does not reach ch <- Update.
C12_IdenticalSampleEmitsNothing ==
    [][(lPc = "select" /\ lpPc = "send" /\ lpPc' = "sleep"
          /\ lastCase = "sample" /\ lpSt = state) => lPc' # "send"]_vars

\* C13: Listen never blocks on the update channel: while ch <- Update is
\* pending and the consumer does not receive, Listen can still take a tick,
\* receive the sample listenPlayer offers and return on a cancelled ctx.
C13_ProducerNeverBlocksOnSend ==
    lPc = "send" =>
        /\ ENABLED ListenTick
        /\ lpPc = "send" => ENABLED ListenRecvState
        /\ ctxDone => ENABLED ListenCtxDone

\* C14: on an ascending LyricSet, getIndex fed a non-decreasing sequence of
\* positions, starting from index 0 and each call given the index the previous
\* call returned, answers every position as a full linear scan does: the last
\* i with lines[i].Time <= position, 0 when there is none (the scan of
\* ModernModeContext).
C14_IncrementalEqualsFullScan ==
    (ixCalls > 0 /\ ixMono) => ixRes = scanLines(ixPos, ixLines, 0, 0)

\* Non-decreasing positions walked getIndex to a line in the middle of the
\* LyricSet in at least two calls.
C14_Witness ==
    /\ ixCalls >= 2
    /\ ixMono
    /\ ixRes >= 1
    /\ ixRes < Len(ixLines) - 1

\* The exact-match request was answered 200 with a JSON object.
GotPayload == rPc = "done" /\ ~rGet.err /\ rGet.status = 200 /\ rGet.body = "json"

\* A line of the form [minutes:seconds.centiseconds] followed by text whose
\* trimmed form is not empty.
WellFormedLine(line) ==
    /\ ~line.len0 /\ line.open /\ line.close
    /\ \A k \in 1..3 : line.stamp[k] # -1
    /\ line.words # 0

RECURSIVE ValidLines(_)
\* The well-formed lines of a payload, each at minutes*60 + seconds +
\* centiseconds/100, in the order of the payload.
ValidLines(synced) ==
    IF synced = <<>> THEN <<>>
    ELSE (IF WellFormedLine(Head(synced))
          THEN <<LyricLine(timeVal(Head(synced).stamp), Head(synced).words)>>
          ELSE <<>>) \o ValidLines(Tail(synced))

\* C15: parseSyncedLyrics emits a line only for a well-formed line, at time
\* minutes*60 + seconds + centiseconds/100: the lines FetchLyrics returns for a
\* payload are its well-formed lines and no others; a line whose bracket holds
\* no timestamp, a line without a leading bracket and a line with empty text
\* are dropped.
C15_OnlyWellFormedLinesEmitted ==
    GotPayload => rOut = Found(ValidLines(rGet.value.SyncedLyrics))

\* C16: every LyricSet FetchLyrics returns is ascending by time, whatever the
\* order of the lines in the payload.
C16_ResolvedLinesAscending == rPc = "done" => IsAscending(rOut.lyric)

\* lyrics.go 94: the statuses taken as not found.
NotFoundStatus == {404, 400}

\* The response is a transport failure or carries a status that is neither 200
\* nor a not-found status.
IsErrorResponse(resp) == resp.err \/ resp.status \notin ({200} \cup NotFoundStatus)

\* C17: in both lookup phases a transport failure, and a response whose status
\* is neither 200 nor the not-found status, ends the lookup with an error,
\* never with the not-found outcome.
C17_OtherStatusIsError ==
    rPc = "done" =>
        /\ IsErrorResponse(rGet) => rOut = Failed
        /\ (rSearch # NoResponse /\ IsErrorResponse(rSearch)) => rOut = Failed

\* The search request was answered 200 with a JSON array.
GotCandidates == rPc = "done" /\ ~rSearch.err /\ rSearch.status = 200 /\ rSearch.body = "json"

\* The least element of a non-empty set of naturals.
First(S) == CHOOSE i \in S : \A j \in S : i <= j

\* The candidates carrying a non-empty synchronized-lyrics payload.
WithPayload(results) ==
    {i \in 1..Len(results) : results[i].SyncedLyrics # EmptyString}

\* The candidates whose non-empty payload parseSyncedLyrics turns into at
\* least one line.
WithLines(results) ==
    {i \in WithPayload(results) : parseSyncedLyrics(results[i].SyncedLyrics) # <<>>}

\* C18 as stated: the search selects the first candidate that carries a
\* non-empty payload, and the outcome is what that payload parses to (not-found
\* when it yields no line); without such a candidate the outcome is not-found.
C18_FirstNonEmptyPayloadSelected ==
    GotCandidates =>
        rOut = IF WithPayload(rSearch.value) = {} THEN NotFound
               ELSE Found(parseSyncedLyrics(
                        rSearch.value[First(WithPayload(rSearch.value))].SyncedLyrics))

\* C18 amended: the search selects the first candidate whose payload is
\* non-empty and parses to at least one line, skipping candidates whose
\* non-empty payload yields none; without such a candidate the outcome is
\* not-found.
C18_FirstCandidateWithLinesSelected ==
    GotCandidates =>
        rOut = IF WithLines(rSearch.value) = {} THEN NotFound
               ELSE Found(parseSyncedLyrics(
                        rSearch.value[First(WithLines(rSearch.value))].SyncedLyrics))

\* The search returned a first candidate whose non-empty payload has no line
\* and a second one with lines, and the lookup returned the second's lines.
C18_Witness ==
    /\ GotCandidates
    /\ Len(rSearch.value) = 2
    /\ 1 \in WithPayload(rSearch.value) \ WithLines(rSearch.value)
    /\ 2 \in WithLines(rSearch.value)
    /\ rOut = Found(parseSyncedLyrics(rSearch.value[2].SyncedLyrics))

\* C19: the exact-match request answered with the not-found status and the
\* search answered with an empty array end the lookup not-found: no LyricSet,
\* no error.
C19_EmptySearchIsNotFound ==
    (GotCandidates /\ rGet.status \in NotFoundStatus /\ Len(rSearch.value) = 0)
        => rOut = NotFound

\* The lookup is over after a 404 and a search that returned the empty array.
C19_Witness ==
    /\ GotCandidates
    /\ rGet.status = 404
    /\ Len(rSearch.value) = 0
    /\ rOut = NotFound

\* C20: the resolver is called only for a report of an identity triple that
\* differs from the one stored: a session goroutine that begins in FetchLyrics
\* is started by a track-change handler, for an identity other than that of the
\* session it replaces.
C20_ResolveOnlyOnIdentityChange ==
    [][\A g \in Sessions :
          (tasks[g].pc = "none" /\ tasks'[g].pc = "fetch") =>
              /\ hKind = "track"
              /\ cancel # 0 => identityDiffers(hMeta, tasks[cancel].meta)]_vars

\* The search request was issued: it is pending or has been answered.
SearchIssued == rPc = "search" \/ rSearch # NoResponse

\* C21: the search request is issued if and only if the exact-match request
\* was answered with a not-found status; a 200 answer never leads to a search,
\* and when its payload is empty or yields no line the outcome is not-found.
C21_SearchOnlyAfterNotFound ==
    rPc # "get" =>
        /\ SearchIssued <=> (~rGet.err /\ rGet.status \in NotFoundStatus)
        /\ (~rGet.err /\ rGet.status = 200 /\ rGet.body = "json"
              /\ parseSyncedLyrics(rGet.value.SyncedLyrics) = <<>>)
             => (rPc = "done" /\ rOut = NotFound /\ rSearch = NoResponse)

\* A 200 answer whose payload is not empty but yields no line ended the lookup
\* not-found without a search.
C21_Witness ==
    /\ rPc = "done"
    /\ ~rGet.err /\ rGet.status = 200 /\ rGet.body = "json"
    /\ rGet.value.SyncedLyrics # EmptyString
    /\ parseSyncedLyrics(rGet.value.SyncedLyrics) = <<>>
    /\ rSearch = NoResponse
    /\ rOut = NotFound

\* C22: once the ctx of a session is cancelled, its PipeModeContext or
\* ModernModeContext loop returns, from the poll, from the inner paused loop
\* and from the retry after a sampling error alike (or the process has ended
\* under it); and the goroutine of a tracker that has returned writes nothing
\* more, nor is any lyric line printed for its session.
C22_CancelledTrackerReturns ==
    /\ \A g \in Sessions :
          (tasks[g].done /\ tasks[g].pc \in TrackerPcs /\ trackerOf(g) # "bubbletea")
              ~> (tasks[g].pc \notin TrackerPcs)
    /\ [][\A g \in Sessions :
            (tasks[g].pc \in {"store", "dead"}) =>
                /\ tasks'[g].out = tasks[g].out
                /\ (rendered' # rendered /\ rendered'.line # -1) => rendered'.gen # g]_vars

\* A tracker that had printed was cancelled while it waited in the paused loop.
C22_Witness ==
    \E g \in Sessions :
        /\ tasks[g].done
        /\ tasks[g].pc = "paused"
        /\ tasks[g].out
        /\ trackerOf(g) # "bubbletea"

\* C23: lastLyric, like the rest of the controller's state, is written by the
\* controller only: no session goroutine ever assigns it, so no such write
\* can race with the read of lastLyric in the Seek path.
C23_OnlyControllerWritesLastLyric == lastLyricBy = 0

\* C24: in Listen, a tick while Playing with lines present advances Position
\* by the wall-clock time elapsed since the last sample or tick; a tick while
\* Paused leaves Position and index unchanged and emits no Update; a sample
\* resets Position to the sampled value.
C24_TickAndSampleEffects ==
    [][/\ (ListenTick /\ state.Playing /\ Len(lines) > 0) =>
              state'.Position = state.Position + (now - lastUpdate)
       /\ (ListenTick /\ ~state.Playing) =>
              (state'.Position = state.Position /\ index' = index /\ lPc' # "send")
       /\ (ListenRecvState /\ lPc' # "fetch") => state'.Position = lpSt.Position
       /\ (\E o \in FetchOutcomes : ListenFetchReturn(o)) =>
              state'.Position = newState.Position]_vars

\* C25: a sampling failure (no bus, no player, a malformed property) does not
\* end the observer and leaves the accepted track identity and what runs for
\* it unchanged: when Listen receives the sample of a failed poll, its stored
\* identity and its lines stay as they were.
C25_FailedSampleChangesNothing ==
    [][(ListenRecvState /\ lpSt.Title = 0) =>
          /\ state'.Title = state.Title
          /\ state'.Artist = state.Artist
          /\ state'.Album = state.Album
          /\ lines' = lines]_vars

\* C26: after the ctx passed to Listen is cancelled, Listen and the
\* listenPlayer goroutine it started both return.
C26_CancelledListenReturns == ctxDone ~> (lPc = "done" /\ lpPc = "done")

\* An index valid for a LyricSet: 0 when it is empty, else within its lines.
ValidIndex(i, lns) == IF Len(lns) = 0 THEN i = 0 ELSE i \in 0..(Len(lns) - 1)

\* C27: in every state of Listen the stored index is 0 when lines is empty and
\* within 0..len(lines)-1 otherwise, across track changes that replace or
\* clear lines, and every Update carries an index valid for its Lines.
C27_IndexWithinLines ==
    /\ ValidIndex(index, lines)
    /\ lPc = "send" => ValidIndex(upd.Index, upd.Lines)

\* A track change has replaced the lines, and the Update sent for it points at
\* the second of the two lines of the new track.
C27_Witness ==
    /\ lPc = "send"
    /\ fetched = "found"
    /\ Len(upd.Lines) = 2
    /\ upd.Index = 1
    /\ lastCase = "sample"

\* C28: whenever the resolver is invoked, its duration argument is the length
\* of the track as the player's metadata reports it, never a playback or seek
\* position: while Listen is inside FetchLyrics the argument it passed is the
\* length of the sampled track.
C28_DurationIsTrackLength ==
    lPc = "fetch" => listenFetchDuration = Duration(newState)

\* C6: in Listen, the Update emitted for a track change whose resolution ended
\* not-found or with an error carries an empty LyricSet, never the lines of the
\* previous track.
C6_UnresolvedTrackUpdateIsEmpty ==
    (lPc = "send" /\ fetched \in {"notfound", "error"}) => upd.Lines = <<>>

\* C7: in Listen, when the resolution for a newly detected track fails with an
\* error, the Update emitted for that track change carries the error in Err.
C7_FailedTrackUpdateCarriesErr ==
    (lPc = "send" /\ fetched = "error") => upd.Err = "fetch"

\* C1: for a LyricSet of N >= 1 ascending lines, getIndex returns the unique i
\* with lines[i].Time <= p and (i = N-1 or p < lines[i+1].Time), and 0 when p
\* precedes the first line, for forward steps and backward jumps alike.
IsCurrentLine(i, p, lns) ==
    /\ i \in 0..(Len(lns) - 1)
    /\ TimeAt(lns, i) <= p
    /\ (i = Len(lns) - 1 \/ p < TimeAt(lns, i + 1))

C1_GetIndexReturnsCurrentLine ==
    (ixCalls > 0 /\ Len(ixLines) >= 1) =>
        IF ixPos < TimeAt(ixLines, 0) THEN ixRes = 0
        ELSE IsCurrentLine(ixRes, ixPos, ixLines)

====
